---- MODULE Spec2Model ----
(***************************************************************************)
(* Attachment Manager plugin (src/main.ts): the debounce registry, the     *)
(* in-flight guard and the reconciliation pass, as a state machine.        *)
(*                                                                         *)
(* Representation.  A name is a sequence of tokens: a token is a word      *)
(* ("NoteA", "pic"), a separator (" ", "-", "_"), a file-system-illegal    *)
(* character ("/", ":") or a placeholder of the pattern language           *)
(* ("${filename}").  A folder path is a sequence of folder names, the      *)
(* root being << >>; a file path is [dir, base, ext].  A TFile is an       *)
(* object with identity (a FileId) whose path the host rewrites in place   *)
(* when the file is renamed.                                               *)
(***************************************************************************)
EXTENDS Integers, Sequences, FiniteSets, TLC

\* ------------------------------------------------------------ bounds
\* Each specification below fixes, in its initial state, how many renames of
\* a document by the user, calls of processNoteAttachments and failed
\* lookups of the reference index one behaviour may hold.
ConcRenames == 2
ConcStarts == 2
ConcMisses == 1
BurstRenames == 4
BurstStarts == 3
PassRenames == 1
PassStarts == 2
PassMisses == 1
ConcSlots == 2          \* passes suspended at an await at the same time
PassSlots == 1
ScopeRenames == 2
BatchRenames == 1
BatchStarts == 3
BatchMisses == 1
BatchSlots == 2
WaitRenames == 1
WaitStarts == 2
WaitMisses == 11        \* lookups of the reference index that find nothing
WaitSlots == 1
TouchDeletes == 1
TouchStarts == 2
TouchMisses == 1
TouchSlots == 1
ChainRenames == 2
ChainStarts == 2
ChainMisses == 1
ChainSlots == 1
RaceStarts == 2
RaceMisses == 1
RaceSlots == 2

\* ------------------------------------------------------------ tokens
None == "none"
NoName == << >>         \* oldNoteName null (or ''): "!oldNoteName"

IsSep(t) == t \in {" ", "-", "_"}               \* the class [\s-_]
IsSpace(t) == t = " "                           \* \s
Illegal == {"\\", "/", ":", "\"", "*", "?", "<", ">", "|"}  \* the class of sanitizeName
Spaces == {" "}

RECURSIVE SepRun(_)
SepRun(s) == IF s # << >> /\ IsSep(Head(s)) THEN 1 + SepRun(Tail(s)) ELSE 0

Drop(s, n) == SubSeq(s, n + 1, Len(s))

IsPrefix(p, s) == Len(p) <= Len(s) /\ SubSeq(s, 1, Len(p)) = p

RECURSIVE Includes(_, _)
Includes(s, p) ==
    IF IsPrefix(p, s) THEN TRUE
    ELSE IF s = << >> THEN FALSE
    ELSE Includes(Tail(s), p)

RECURSIVE TrimLeft(_)
TrimLeft(s) == IF s # << >> /\ IsSpace(Head(s)) THEN TrimLeft(Tail(s)) ELSE s

RECURSIVE TrimRight(_)
TrimRight(s) ==
    IF s # << >> /\ IsSpace(s[Len(s)]) THEN TrimRight(SubSeq(s, 1, Len(s) - 1)) ELSE s

Trim(s) == TrimRight(TrimLeft(s))

\* s.replace(/tok/g, value): every occurrence of one token by a sequence.
RECURSIVE ReplaceToken(_, _, _)
ReplaceToken(s, tok, value) ==
    IF s = << >> THEN << >>
    ELSE (IF Head(s) = tok THEN value ELSE <<Head(s)>>)
         \o ReplaceToken(Tail(s), tok, value)

\* s.replace(/[class]+/g, by): every maximal run of tokens of a class by one token.
RECURSIVE CollapseRuns(_, _, _)
CollapseRuns(s, class, by) ==
    IF s = << >> THEN << >>
    ELSE IF Head(s) \in class
         THEN IF Len(s) > 1 /\ s[2] \in class
              THEN CollapseRuns(Tail(s), class, by)
              ELSE <<by>> \o CollapseRuns(Tail(s), class, by)
         ELSE <<Head(s)>> \o CollapseRuns(Tail(s), class, by)

\* clean.replace(new RegExp(`[\\s-_]*${escapedOld}[\\s-_]*`, 'g'), ' '):
\* leftmost matches, each with its greedy separator padding, become one space.
RECURSIVE StripAll(_, _)
StripAll(s, old) ==
    IF s = << >> THEN << >>
    ELSE LET rest == Drop(s, SepRun(s))
         IN IF IsPrefix(old, rest)
            THEN LET after == Drop(rest, Len(old))
                 IN <<" ">> \o StripAll(Drop(after, SepRun(after)), old)
            ELSE <<Head(s)>> \o StripAll(Tail(s), old)

\* ------------------------------------------------------------ templating
getCleanOriginalName(currentBase, oldNoteName) ==
    IF oldNoteName = NoName THEN currentBase
    ELSE LET clean == IF Includes(currentBase, oldNoteName)
                      THEN Trim(StripAll(currentBase, oldNoteName))
                      ELSE currentBase
         IN IF clean = << >> THEN <<"Attachment">> ELSE clean

OrElse(v, fallback) == IF v = << >> THEN fallback ELSE v

applyVariables(pattern, vars) ==
    LET s1 == ReplaceToken(pattern, "${filename}", OrElse(vars.filename, <<"note">>))
        s2 == ReplaceToken(s1, "${original}", OrElse(vars.original, <<"file">>))
        s3 == ReplaceToken(s2, "${extension}", OrElse(vars.extension, << >>))
        s4 == ReplaceToken(s3, "${date}", OrElse(vars.date, << >>))
    IN ReplaceToken(s4, "${index}", OrElse(vars.index, <<"01">>))

sanitizeName(name) ==
    Trim(CollapseRuns(CollapseRuns(name, Illegal, "-"), Spaces, " "))

\* (index + 1).toString().padStart(2, '0')
PadIndex(index) ==
    IF index + 1 < 10 THEN "0" \o ToString(index + 1) ELSE ToString(index + 1)

\* ------------------------------------------------------------ paths
Root == << >>

\* normalizePath on a folder path: empty segments ("a//b", leading and
\* trailing slashes, the root "/") vanish.
normalizePath(segments) == SelectSeq(segments, LAMBDA x : x # "")

FilePath(dir, base, ext) == [dir |-> normalizePath(dir), base |-> base, ext |-> ext]

\* ------------------------------------------------------------ the vault
PA == <<"Projects", "Active">>
Inbox == <<"Inbox">>

DocIds == {"d1", "d2"}
AttIds == {"a1", "a2"}
FileIds == DocIds \cup AttIds

VARIABLES
    files,          \* FileId -> [path, exists]: the host's TFile objects
    folders,        \* the folder paths that exist
    plainAt,        \* folder paths at which a file that is no folder sits
    crowd,          \* pre-existing same-named files: [dir, stem, ext, upTo]
    cache,          \* DocId -> the document's embeds followed by its links
    settings,       \* PluginSettings
    isProcessing,   \* the in-flight set (paths)
    debouncers,     \* the debounce registry: path -> [pending, file, old]
    orphans,        \* pending timers of debouncers no longer in the registry
    loaded,         \* FALSE once onunload has run
    pass,           \* slot -> a call of processNoteAttachments suspended at an await
    limits,         \* [renames, starts, misses, slots, keep]: this behaviour's budget
    nRenames, nStarts, nMisses,
    epoch,          \* the number of changes of the vault so far (kept with hist)
    hist,           \* the calls of processNoteAttachments that have returned
    calls,          \* path -> timer firings for the current burst of that path
    lateStart,      \* a timer started a pass after onunload
    batch           \* the call of processAllNotesInScope, if any

vars == <<files, folders, plainAt, crowd, cache, settings, isProcessing,
          debouncers, orphans, loaded, pass, limits, nRenames, nStarts,
          nMisses, epoch, hist, calls, lateStart, batch>>

mdExt == "md"
maxRetries == 500           \* resolveCollision
cacheMaxRetries == 10       \* processNoteAttachments, cache wait

\* '1' .. '500', the collision suffixes, and their values.
NumTok == {ToString(n) : n \in 1..maxRetries}
NumOf == [t \in NumTok |-> CHOOSE n \in 1..maxRetries : ToString(n) = t]

\* Is path p one of the pre-existing files "stem.ext", "stem 1.ext", ...,
\* "stem upTo.ext" of a crowd?
InCrowd(p) ==
    \E c \in crowd :
        /\ p.dir = c.dir /\ p.ext = c.ext
        /\ \/ p.base = c.stem
           \/ /\ Len(p.base) = Len(c.stem) + 2
              /\ SubSeq(p.base, 1, Len(c.stem)) = c.stem
              /\ p.base[Len(c.stem) + 1] = " "
              /\ p.base[Len(p.base)] \in NumTok
              /\ NumOf[p.base[Len(p.base)]] <= c.upTo

\* vault.getAbstractFileByPath on a file path: the TFile there, "crowd" for
\* a file no document references, or None.
getAbstractFileByPath(fs, p) ==
    IF \E f \in FileIds : fs[f].exists /\ fs[f].path = p
    THEN CHOOSE f \in FileIds : fs[f].exists /\ fs[f].path = p
    ELSE IF InCrowd(p) THEN "crowd" ELSE None

\* vault.getAbstractFileByPath on a folder path.
EntryAt(fds, dir) ==
    IF dir \in fds THEN "folder" ELSE IF dir \in plainAt THEN "file" ELSE None

Prefixes(dir) == {SubSeq(dir, 1, n) : n \in 0..Len(dir)}

\* The file name as one path segment, and the path as its segments.
RECURSIVE Concat(_)
Concat(s) == IF s = << >> THEN "" ELSE Head(s) \o Concat(Tail(s))

FileName(p) == IF p.ext = "" THEN Concat(p.base) ELSE Concat(p.base) \o "." \o p.ext
Segments(p) == p.dir \o <<FileName(p)>>

\* ------------------------------------------------------------ settings
isScopeValidKeepsRoot(p) ==
    IF settings.scopeMode = "vault" THEN TRUE
    ELSE LET normalizedFilePath == normalizePath(Segments(p))
             validWatchedPaths == [i \in DOMAIN settings.watchedPaths |->
                                      normalizePath(settings.watchedPaths[i])]
             isMatch == \E i \in DOMAIN validWatchedPaths :
                            \/ normalizedFilePath = validWatchedPaths[i]
                            \/ /\ Len(validWatchedPaths[i]) < Len(normalizedFilePath)
                               /\ IsPrefix(validWatchedPaths[i], normalizedFilePath)
         IN IF validWatchedPaths = << >> THEN TRUE
            ELSE IF settings.scopeMode = "include" THEN isMatch
            ELSE IF settings.scopeMode = "exclude" THEN ~isMatch
            ELSE TRUE

isScopeValid(p) ==
    IF settings.scopeMode = "vault" THEN TRUE
    ELSE LET normalizedFilePath == normalizePath(Segments(p))
             mapped == [i \in DOMAIN settings.watchedPaths |->
                            normalizePath(settings.watchedPaths[i])]
             validWatchedPaths == SelectSeq(mapped, LAMBDA w : w # << >>)
             isMatch == \E i \in DOMAIN validWatchedPaths :
                            \/ normalizedFilePath = validWatchedPaths[i]
                            \/ /\ Len(validWatchedPaths[i]) < Len(normalizedFilePath)
                               /\ IsPrefix(validWatchedPaths[i], normalizedFilePath)
         IN IF validWatchedPaths = << >> THEN TRUE
            ELSE IF settings.scopeMode = "include" THEN isMatch
            ELSE IF settings.scopeMode = "exclude" THEN ~isMatch
            ELSE TRUE

toLowerCase(e) == CASE e = "PNG" -> "png" [] e = "PDF" -> "pdf" [] OTHER -> e

getRuleForExtensionExact(ext) ==
    LET hits == {i \in DOMAIN settings.rules :
                    \E j \in DOMAIN settings.rules[i].extensions :
                        settings.rules[i].extensions[j] = ext}
    IN IF hits = {} THEN 0 ELSE CHOOSE i \in hits : \A j \in hits : i <= j

\* The index in settings.rules of the first rule listing the extension; 0 is null.
getRuleForExtension(ext) ==
    LET lowerExt == toLowerCase(ext)
        hits == {i \in DOMAIN settings.rules :
                    \E j \in DOMAIN settings.rules[i].extensions :
                        toLowerCase(settings.rules[i].extensions[j]) = lowerExt}
    IN IF hits = {} THEN 0 ELSE CHOOSE i \in hits : \A j \in hits : i <= j

getFormattedDate == <<"20261101">>

\* A path pattern is its segments; "./assets" is <<".", "assets">>.
resolveTargetPath(fs, pathPattern, noteFile) ==
    IF pathPattern # << >> /\ Head(pathPattern) = "."
    THEN normalizePath(fs[noteFile].path.dir \o Tail(pathPattern))
    ELSE normalizePath(pathPattern)

resolveCollisionKeepsDesired(fs, desiredPath, currentFile, targetFolder, baseName) ==
    LET finalPath(suffix) ==
            IF suffix = 0 THEN desiredPath
            ELSE FilePath(targetFolder, baseName \o <<" ", ToString(suffix)>>,
                          fs[currentFile].path.ext)
        returns(suffix) ==
            \/ getAbstractFileByPath(fs, finalPath(suffix)) = None
            \/ finalPath(suffix) = fs[currentFile].path
        tried == 0..(maxRetries - 1)
    IN IF \E suffix \in tried : returns(suffix)
       THEN finalPath(CHOOSE suffix \in tried :
                         returns(suffix) /\ \A n \in 0..(suffix - 1) : ~returns(n))
       ELSE desiredPath

resolveCollisionKeepsLast(fs, desiredPath, currentFile, targetFolder, baseName) ==
    LET finalPath(suffix) ==
            IF suffix = 0 THEN desiredPath
            ELSE FilePath(targetFolder, baseName \o <<" ", ToString(suffix)>>,
                          fs[currentFile].path.ext)
        returns(suffix) ==
            \/ getAbstractFileByPath(fs, finalPath(suffix)) = None
            \/ finalPath(suffix) = fs[currentFile].path
        tried == 0..(maxRetries - 1)
    IN IF \E suffix \in tried : returns(suffix)
       THEN finalPath(CHOOSE suffix \in tried :
                         returns(suffix) /\ \A n \in 0..(suffix - 1) : ~returns(n))
       ELSE finalPath(maxRetries)

resolveCollisionSkipsOne(fs, desiredPath, currentFile, targetFolder, baseName) ==
    LET finalPath(suffix) ==
            IF suffix = 0 THEN desiredPath
            ELSE FilePath(targetFolder, baseName \o <<" ", ToString(suffix + 1)>>,
                          fs[currentFile].path.ext)
        returns(suffix) ==
            \/ getAbstractFileByPath(fs, finalPath(suffix)) = None
            \/ finalPath(suffix) = fs[currentFile].path
        tried == 0..(maxRetries - 1)
    IN IF \E suffix \in tried : returns(suffix)
       THEN finalPath(CHOOSE suffix \in tried :
                         returns(suffix) /\ \A n \in 0..(suffix - 1) : ~returns(n))
       ELSE fs[currentFile].path

\* The while loop tries desiredPath, then "{baseName} 1.{ext}", ..., up to
\* "{baseName} 499.{ext}", and returns the first that nothing but the file
\* itself occupies; after maxRetries candidates, the file's own path.
resolveCollision(fs, desiredPath, currentFile, targetFolder, baseName) ==
    LET finalPath(suffix) ==
            IF suffix = 0 THEN desiredPath
            ELSE FilePath(targetFolder, baseName \o <<" ", ToString(suffix)>>,
                          fs[currentFile].path.ext)
        returns(suffix) ==
            \/ getAbstractFileByPath(fs, finalPath(suffix)) = None
            \/ finalPath(suffix) = fs[currentFile].path
        tried == 0..(maxRetries - 1)
    IN IF \E suffix \in tried : returns(suffix)
       THEN finalPath(CHOOSE suffix \in tried :
                         returns(suffix) /\ \A n \in 0..(suffix - 1) : ~returns(n))
       ELSE fs[currentFile].path

\* ------------------------------------------------------------ the pass
SlotBounds == {ConcSlots, PassSlots, BatchSlots, WaitSlots, TouchSlots, ChainSlots,
               RaceSlots}
Slots == 1..(CHOOSE n \in SlotBounds : \A m \in SlotBounds : m <= n)
Micro == {"resolved", "ensured", "threw"}       \* resumed by the microtask queue
Macro == {"cacheWait", "creating", "renaming"}  \* resumed by a timer or by I/O

IdlePass ==
    [pc |-> "idle", noteFile |-> None, oldNoteName |-> NoName, lock |-> None,
     retries |-> 0, targets |-> << >>, k |-> 0, processedPaths |-> {},
     checkedFolders |-> {}, renameCount |-> 0, desiredPath |-> None,
     finalPath |-> None, targetFolderPath |-> Root, locationMode |-> None,
     invoked |-> {}, ok |-> {}, failed |-> {}, began |-> {}, startedAt |-> << >>,
     byBatch |-> FALSE, noCache |-> FALSE, plans |-> {}]

RECURSIVE gatherKeepsDocuments(_, _, _, _)
gatherKeepsDocuments(fs, refs, i, noteFile) ==
    IF i > Len(refs) THEN << >>
    ELSE LET attachmentFile == refs[i]
         IN (IF /\ attachmentFile # None
                /\ fs[attachmentFile].exists
                /\ fs[attachmentFile].path # fs[noteFile].path
             THEN <<[file |-> attachmentFile,
                     originalPath |-> fs[attachmentFile].path,
                     index |-> i - 1]>>
             ELSE << >>)
            \o gatherKeepsDocuments(fs, refs, i + 1, noteFile)

\* Step 2, "Gather Data": the targets of the combined references. A link
\* whose file is gone resolves to null (getFirstLinkpathDest).
RECURSIVE gather(_, _, _, _)
gather(fs, refs, i, noteFile) ==
    IF i > Len(refs) THEN << >>
    ELSE LET attachmentFile == refs[i]
         IN (IF /\ attachmentFile # None
                /\ fs[attachmentFile].exists
                /\ fs[attachmentFile].path.ext # mdExt
                /\ fs[attachmentFile].path # fs[noteFile].path
             THEN <<[file |-> attachmentFile,
                     originalPath |-> fs[attachmentFile].path,
                     index |-> i - 1]>>
             ELSE << >>)
            \o gather(fs, refs, i + 1, noteFile)

\* "Safe Allowlist approach" (line 249): r is the matched rule's index, 0 for none.
allowlistAlways(r) == FALSE

allowlistSkips(r) == r = 0 /\ Len(settings.rules) > 0

targetFolderFromPattern(fs, locationMode, attachmentFile, pathPattern, noteFile) ==
    resolveTargetPath(fs, pathPattern, noteFile)

\* "Determine Target Folder" (lines 274-282): the attachment's parent folder
\* in mode 'original', the folder of the path pattern otherwise.
targetFolder(fs, locationMode, attachmentFile, pathPattern, noteFile) ==
    IF locationMode = "original" THEN attachmentFile.dir
    ELSE resolveTargetPath(fs, pathPattern, noteFile)

\* The name and folder one iteration computes for its target (lines 246-284).
Plan(fs, p, t) ==
    LET attachmentFile == fs[t.file].path
        r == getRuleForExtension(attachmentFile.ext)
        rule == settings.rules[r]
        namePattern == IF r # 0 THEN rule.namePattern ELSE settings.defaultNamePattern
        pathPattern == IF r # 0 THEN rule.pathPattern ELSE settings.defaultPathPattern
        locationMode == IF r # 0
                        THEN (IF rule.locationMode = None THEN "pattern"
                              ELSE rule.locationMode)
                        ELSE "pattern"
        cleanOriginalBase == getCleanOriginalName(attachmentFile.base, p.oldNoteName)
        variables == [filename |-> fs[p.noteFile].path.base,
                      original |-> cleanOriginalBase,
                      extension |-> <<attachmentFile.ext>>,
                      date |-> getFormattedDate,
                      index |-> <<PadIndex(t.index)>>]
        sanitized == sanitizeName(applyVariables(namePattern, variables))
        newBaseName == IF Len(sanitized) = 0 THEN <<"attachment">> ELSE sanitized
        targetFolderPath == targetFolder(fs, locationMode, attachmentFile,
                                         pathPattern, p.noteFile)
    IN [skip |-> allowlistSkips(r),
        locationMode |-> locationMode,
        newBaseName |-> newBaseName,
        targetFolderPath |-> targetFolderPath,
        desiredPath |-> FilePath(targetFolderPath, newBaseName, attachmentFile.ext)]

\* The for loop of step 3 from target p.k on, up to its next await (the call
\* of resolveCollision) or to the return of the pass.
RECURSIVE runLoop(_, _)
runLoop(fs, p) ==
    IF p.k > Len(p.targets) THEN [p EXCEPT !.pc = "return"]
    ELSE LET t == p.targets[p.k]
             cur == fs[t.file].path
             next == [p EXCEPT !.k = p.k + 1, !.began = @ \cup {p.k}]
             q == [p EXCEPT !.began = @ \cup {p.k}]
         IN IF cur \in p.processedPaths THEN runLoop(fs, next)
            ELSE IF getAbstractFileByPath(fs, cur) = None THEN runLoop(fs, next)
            ELSE LET plan == Plan(fs, p, t)
                 IN IF plan.skip THEN runLoop(fs, next)
                    ELSE IF plan.desiredPath = cur
                    THEN runLoop(fs, [next EXCEPT !.processedPaths = @ \cup {cur}])
                    ELSE LET finalPath == resolveCollision(fs, plan.desiredPath, t.file,
                                              plan.targetFolderPath, plan.newBaseName)
                         IN [q EXCEPT !.pc = "resolved",
                                      !.desiredPath = plan.desiredPath,
                                      !.locationMode = plan.locationMode,
                                      !.targetFolderPath = plan.targetFolderPath,
                                      !.finalPath = finalPath,
                                      !.plans = @ \cup
                                          {[k |-> p.k, from |-> cur,
                                            desired |-> plan.desiredPath,
                                            baseName |-> plan.newBaseName,
                                            final |-> finalPath]}]

\* Steps 1-2 once the cache is there, then the loop.
discover(fs, p) ==
    LET combinedReferences == cache[p.noteFile]
        targets == gather(fs, combinedReferences, 1, p.noteFile)
    IN IF Len(combinedReferences) = 0 \/ Len(targets) = 0
       THEN [p EXCEPT !.pc = "return"]
       ELSE runLoop(fs, [p EXCEPT !.targets = targets, !.k = 1])

\* What hist keeps of a call that has returned.
Outcome(p, ep) ==
    [file |-> p.noteFile, old |-> p.oldNoteName, guard |-> TRUE,
     ret |-> p.renameCount, ok |-> p.ok, invoked |-> p.invoked,
     failed |-> p.failed, targets |-> Len(p.targets), began |-> p.began,
     lock |-> p.lock, startedAt |-> p.startedAt, endedAt |-> ep,
     byBatch |-> p.byBatch, noCache |-> p.noCache, retries |-> p.retries,
     plans |-> p.plans, tlist |-> p.targets, released |-> TRUE]

GuardHit(f, old) ==
    [file |-> f, old |-> old, guard |-> FALSE, ret |-> 0, ok |-> {},
     invoked |-> {}, failed |-> {}, targets |-> 0, began |-> {}, lock |-> None,
     startedAt |-> <<Len(hist), epoch>>, endedAt |-> epoch,
     byBatch |-> batch.pc = "calling", noCache |-> FALSE, retries |-> 0,
     plans |-> {}, tlist |-> << >>, released |-> TRUE]

\* The pass in slot s has run up to p: it is suspended again, or it returns
\* through the finally block, which deletes the document's current path.
Settle(s, p, fs, inflight, ep) ==
    IF p.pc = "return"
    THEN /\ pass' = [pass EXCEPT ![s] = IdlePass]
         /\ isProcessing' = inflight \ {fs[p.noteFile].path}
         /\ hist' = IF limits.keep
                    THEN Append(hist, [Outcome(p, ep) EXCEPT
                                          !.released = p.lock \notin isProcessing'])
                    ELSE hist
         /\ batch' = IF p.byBatch
                     THEN [batch EXCEPT !.pc = "resume", !.count = p.renameCount]
                     ELSE batch
    ELSE /\ pass' = [pass EXCEPT ![s] = p]
         /\ isProcessing' = inflight
         /\ hist' = hist
         /\ batch' = IF p.byBatch /\ batch.pc = "calling"
                     THEN [batch EXCEPT !.pc = "waiting"]
                     ELSE batch

FreeSlot == CHOOSE s \in Slots : pass[s].pc = "idle" /\ \A u \in Slots : pass[u].pc = "idle" => s <= u

guardHitReleases(inflight, path) == inflight \ {path}

\* Line 189: "return 0" ahead of the try, so the finally block does not run.
guardHitLeaves(inflight, path) == inflight

\* processNoteAttachments(noteFile, oldNoteName), from the call to its first await.
processNoteAttachments(noteFile, oldNoteName) ==
    /\ nStarts < limits.starts
    /\ nStarts' = nStarts + 1
    /\ IF files[noteFile].path \in isProcessing
       THEN /\ hist' = IF limits.keep THEN Append(hist, GuardHit(noteFile, oldNoteName))
                      ELSE hist
            /\ isProcessing' = guardHitLeaves(isProcessing, files[noteFile].path)
            /\ batch' = IF batch.pc = "calling"
                        THEN [batch EXCEPT !.pc = "resume", !.count = 0]
                        ELSE batch
            /\ UNCHANGED <<pass, nMisses>>
       ELSE /\ Cardinality({s \in Slots : pass[s].pc # "idle"}) < limits.slots
            /\ LET p == [IdlePass EXCEPT !.noteFile = noteFile,
                                         !.oldNoteName = oldNoteName,
                                         !.lock = files[noteFile].path,
                                         !.byBatch = batch.pc = "calling",
                                         !.startedAt =
                                             IF limits.keep THEN <<Len(hist), epoch>>
                                             ELSE << >>]
                   inflight == isProcessing \cup {files[noteFile].path}
               IN \/ /\ UNCHANGED nMisses
                     /\ Settle(FreeSlot, discover(files, p), files, inflight, epoch)
                  \/ /\ nMisses < limits.misses
                     /\ nMisses' = nMisses + 1
                     /\ Settle(FreeSlot, [p EXCEPT !.pc = "cacheWait"], files, inflight, epoch)

\* ensureFolderExists up to its first await: it returns, throws, or calls createFolder.
ensureFolderExists(fds, path) ==
    IF path = Root \/ path = <<".">> THEN "return"
    ELSE LET existing == EntryAt(fds, normalizePath(path))
         IN IF existing = "folder" THEN "return"
            ELSE IF existing = "file" THEN "throw"
            ELSE "create"

MicroIdle ==
    /\ \A s \in Slots : pass[s].pc \notin Micro
    /\ batch.pc \notin {"calling", "resume"}

catchItemAborts(fs, p) ==
    [p EXCEPT !.pc = "return", !.renameCount = 0, !.failed = @ \cup {p.k}]

\* The catch of the per-item try (line 316), then the next iteration.
catchItem(fs, p) ==
    runLoop(fs, [p EXCEPT !.k = p.k + 1, !.failed = @ \cup {p.k}])

\* ------------------------------------------------------------ the scheduler
getFileNameFromPath(oldPath) ==
    IF oldPath.ext = mdExt THEN oldPath.base
    ELSE IF oldPath.ext = "" THEN oldPath.base
    ELSE oldPath.base \o <<".", oldPath.ext>>

triggerDebouncedProcessing(debs, fs, file, oldNoteName) ==
    LET key == fs[file].path
    IN [k \in DOMAIN debs \cup {key} |->
            IF k = key THEN [pending |-> TRUE, file |-> file, old |-> oldNoteName]
            ELSE debs[k]]

AcceptsAnyFile(fs, file) ==
    /\ settings.enableAutoRename
    /\ isScopeValid(fs[file].path)

\* Does the 'rename' handler (lines 118-127) pass the event on?
Accepts(fs, file) ==
    /\ settings.enableAutoRename
    /\ fs[file].path.ext = mdExt
    /\ isScopeValid(fs[file].path)

onRename(debs, fs, file, oldPath) ==
    IF ~loaded THEN debs
    ELSE IF Accepts(fs, file)
    THEN triggerDebouncedProcessing(debs, fs, file, getFileNameFromPath(oldPath))
    ELSE debs

PendingFor(key) ==
    \/ key \in DOMAIN debouncers /\ debouncers[key].pending
    \/ \E o \in orphans : o.key = key

\* The ghost record of an event, and of the burst it belongs to.
NoteEvent(fs, file) ==
    /\ epoch' = IF limits.keep THEN epoch + 1 ELSE epoch
    /\ calls' = IF loaded /\ Accepts(fs, file) /\ ~PendingFor(fs[file].path)
                THEN [k \in DOMAIN calls \cup {fs[file].path} |->
                          IF k = fs[file].path THEN 0 ELSE calls[k]]
                ELSE calls

\* this.debouncers.delete(f.path) at the end of the deferred call: the entry
\* under the document's current path goes, its timer (if any) stays pending.
deleteEntry(debs, key) == [k \in DOMAIN debs \ {key} |-> debs[k]]

Orphaned(debs, key) ==
    IF key \in DOMAIN debs /\ debs[key].pending
    THEN {[key |-> key, file |-> debs[key].file, old |-> debs[key].old]}
    ELSE {}

Fired == [pending |-> FALSE, file |-> None, old |-> NoName]

\* ------------------------------------------------------------ actions
\* The user renames or moves a document; the host rewrites the TFile's path
\* and emits 'rename'.
DocPaths == {FilePath(PA, <<"NoteA">>, mdExt), FilePath(PA, <<"NoteB">>, mdExt),
             FilePath(Inbox, <<"NoteA">>, mdExt)}

UserRename(f, newPath) ==
    /\ MicroIdle
    /\ nRenames < limits.renames
    /\ files[f].exists /\ files[f].path # newPath
    /\ getAbstractFileByPath(files, newPath) = None
    /\ LET fs == [files EXCEPT ![f].path = newPath]
       IN /\ files' = fs
          /\ debouncers' = onRename(debouncers, fs, f, files[f].path)
          /\ NoteEvent(fs, f)
    /\ nRenames' = nRenames + 1
    /\ UNCHANGED <<folders, plainAt, crowd, cache, settings, isProcessing, orphans,
                   loaded, pass, limits, nStarts, nMisses, hist, lateStart, batch>>

\* The timer of the debouncer registered under key fires.
TimerFire(key) ==
    /\ MicroIdle
    /\ key \in DOMAIN debouncers /\ debouncers[key].pending
    /\ LET f == debouncers[key].file
           debs == [debouncers EXCEPT ![key] = Fired]
       IN /\ processNoteAttachments(f, debouncers[key].old)
          /\ debouncers' = deleteEntry(debs, files[f].path)
          /\ orphans' = orphans \cup Orphaned(debs, files[f].path)
    /\ calls' = [calls EXCEPT ![key] = IF @ < 2 THEN @ + 1 ELSE @]
    /\ lateStart' = (lateStart \/ ~loaded)
    /\ UNCHANGED <<files, folders, plainAt, crowd, cache, settings, loaded, limits,
                   nRenames, epoch>>

\* The timer of a debouncer that is no longer in the registry fires.
OrphanFire(o) ==
    /\ MicroIdle
    /\ o \in orphans
    /\ processNoteAttachments(o.file, o.old)
    /\ debouncers' = deleteEntry(debouncers, files[o.file].path)
    /\ orphans' = (orphans \ {o}) \cup Orphaned(debouncers, files[o.file].path)
    /\ calls' = [calls EXCEPT ![o.key] = IF @ < 2 THEN @ + 1 ELSE @]
    /\ lateStart' = (lateStart \/ ~loaded)
    /\ UNCHANGED <<files, folders, plainAt, crowd, cache, settings, loaded, limits,
                   nRenames, epoch>>

\* Command "Rename attachments for active note".
CmdActive(f) ==
    /\ loaded /\ MicroIdle
    /\ files[f].exists
    /\ isScopeValid(files[f].path)
    /\ processNoteAttachments(f, NoName)
    /\ UNCHANGED <<files, folders, plainAt, crowd, cache, settings, debouncers,
                   orphans, loaded, limits, nRenames, calls, epoch, lateStart>>

\* The settings tab toggles "Enable Auto-Rename".
ToggleAutoRename ==
    /\ loaded /\ MicroIdle
    /\ settings' = [settings EXCEPT !.enableAutoRename = ~@]
    /\ UNCHANGED <<files, folders, plainAt, crowd, cache, isProcessing, debouncers,
                   orphans, loaded, pass, limits, nRenames, nStarts, nMisses, hist,
                   calls, epoch, lateStart, batch>>

onunload ==
    /\ loaded /\ MicroIdle
    /\ debouncers' = << >>
    /\ isProcessing' = {}
    /\ loaded' = FALSE
    /\ UNCHANGED <<files, folders, plainAt, crowd, cache, settings, orphans, pass,
                   limits, nRenames, nStarts, nMisses, hist, calls, epoch,
                   lateStart, batch>>

Frame == UNCHANGED <<plainAt, crowd, cache, settings, orphans, loaded, limits,
                     nRenames, nStarts, lateStart>>

\* The 100 ms wait of the cache loop is over: the next lookup.
CacheRetry(s) ==
    /\ MicroIdle
    /\ pass[s].pc = "cacheWait"
    /\ LET p == [pass[s] EXCEPT !.retries = @ + 1]
       IN \/ /\ UNCHANGED nMisses
             /\ Settle(s, discover(files, p), files, isProcessing, epoch)
          \/ /\ nMisses < limits.misses
             /\ nMisses' = nMisses + 1
             /\ Settle(s, IF p.retries < cacheMaxRetries THEN p
                           ELSE [p EXCEPT !.pc = "return", !.noCache = TRUE],
                       files, isProcessing, epoch)
    /\ UNCHANGED <<files, folders, debouncers, calls, epoch>>
    /\ Frame

\* After "await this.resolveCollision(...)" (lines 298-311).
AfterResolve(s) ==
    /\ pass[s].pc = "resolved"
    /\ LET p == pass[s]
           cur == files[p.targets[p.k].file].path
       IN IF p.finalPath = cur
          THEN Settle(s, runLoop(files, [p EXCEPT !.k = p.k + 1,
                                                  !.processedPaths = @ \cup {cur}]),
                      files, isProcessing, epoch)
          ELSE IF p.targetFolderPath \notin p.checkedFolders /\ p.locationMode # "original"
          THEN LET e == ensureFolderExists(folders, p.targetFolderPath)
               IN Settle(s, [p EXCEPT !.pc = IF e = "return" THEN "ensured"
                                             ELSE IF e = "throw" THEN "threw"
                                             ELSE "creating"],
                         files, isProcessing, epoch)
          ELSE Settle(s, [p EXCEPT !.pc = "renaming", !.invoked = @ \cup {p.k}],
                      files, isProcessing, epoch)
    /\ UNCHANGED <<files, folders, debouncers, calls, epoch, nMisses>>
    /\ Frame

\* vault.createFolder, called while nothing was at the path (line 426),
\* completes: the directory is there, whether this call or another one issued
\* meanwhile made it; or the call fails (a file has taken the name, I/O).
CreateFolderDone(s) ==
    /\ MicroIdle
    /\ pass[s].pc = "creating"
    /\ LET p == pass[s]
           dir == normalizePath(p.targetFolderPath)
       IN \/ /\ EntryAt(folders, dir) # "file"
             /\ folders' = folders \cup Prefixes(dir)
             /\ Settle(s, [p EXCEPT !.pc = "ensured"], files, isProcessing, epoch)
          \/ /\ folders' = folders
             /\ Settle(s, [p EXCEPT !.pc = "threw"], files, isProcessing, epoch)
    /\ UNCHANGED <<files, debouncers, calls, epoch, nMisses>>
    /\ Frame

\* After "await this.ensureFolderExists(...)": lines 307-311.
Ensured(s) ==
    /\ pass[s].pc = "ensured"
    /\ LET p == pass[s]
       IN Settle(s, [p EXCEPT !.pc = "renaming", !.invoked = @ \cup {p.k},
                              !.checkedFolders = @ \cup {p.targetFolderPath}],
                 files, isProcessing, epoch)
    /\ UNCHANGED <<files, folders, debouncers, calls, epoch, nMisses>>
    /\ Frame

\* ensureFolderExists has thrown: the catch of line 316, then the next target.
Threw(s) ==
    /\ pass[s].pc = "threw"
    /\ Settle(s, catchItem(files, pass[s]), files, isProcessing, epoch)
    /\ UNCHANGED <<files, folders, debouncers, calls, epoch, nMisses>>
    /\ Frame

\* fileManager.renameFile completes: the file moves and the host emits
\* 'rename' for it, or the primitive fails (destination occupied, I/O).
RenameDone(s) ==
    /\ MicroIdle
    /\ pass[s].pc = "renaming"
    /\ LET p == pass[s]
           a == p.targets[p.k].file
       IN \/ /\ files[a].exists
             /\ getAbstractFileByPath(files, p.finalPath) = None
             /\ p.finalPath.dir \in folders
             /\ LET fs == [files EXCEPT ![a].path = p.finalPath]
                IN /\ files' = fs
                   /\ debouncers' = onRename(debouncers, fs, a, files[a].path)
                   /\ NoteEvent(fs, a)
                   /\ Settle(s, runLoop(fs, [p EXCEPT !.k = p.k + 1,
                                                  !.processedPaths = @ \cup {p.finalPath},
                                                  !.renameCount = @ + 1,
                                                  !.ok = @ \cup {p.k}]),
                             fs, isProcessing, epoch')
          \/ /\ Settle(s, catchItem(files, p), files, isProcessing, epoch)
             /\ UNCHANGED <<files, debouncers, calls, epoch>>
    /\ UNCHANGED <<folders, nMisses>>
    /\ Frame

\* The scheduler and the guard: attachments stay in their folder (location
\* mode 'original'), so no pass ever waits for a folder.
NextConc ==
    \/ \E f \in DocIds, newPath \in DocPaths : UserRename(f, newPath)
    \/ \E key \in DOMAIN debouncers : TimerFire(key)
    \/ \E o \in orphans : OrphanFire(o)
    \/ \E f \in DocIds : CmdActive(f)
    \/ ToggleAutoRename
    \/ onunload
    \/ \E s \in Slots : CacheRetry(s)
    \/ \E s \in Slots : AfterResolve(s)
    \/ \E s \in Slots : RenameDone(s)

NextPass ==
    \/ \E f \in DocIds, newPath \in DocPaths : UserRename(f, newPath)
    \/ \E key \in DOMAIN debouncers : TimerFire(key)
    \/ \E f \in DocIds : CmdActive(f)
    \/ \E s \in Slots : CacheRetry(s)
    \/ \E s \in Slots : AfterResolve(s)
    \/ \E s \in Slots : CreateFolderDone(s)
    \/ \E s \in Slots : Ensured(s)
    \/ \E s \in Slots : Threw(s)
    \/ \E s \in Slots : RenameDone(s)

\* ------------------------------------------------------------ initial states
ImageRule ==
    [extensions |-> <<"png", "jpg", "jpeg", "gif", "webp", "svg", "bmp">>,
     namePattern |-> <<"${filename}", " ", "${original}">>,
     pathPattern |-> <<".", "assets">>,
     locationMode |-> "pattern"]

PdfRule ==
    [extensions |-> <<"pdf">>,
     namePattern |-> <<"${filename}", " ", "${original}">>,
     pathPattern |-> <<"Documents", "Attachments">>,
     locationMode |-> "pattern"]

\* A rule that numbers the attachments of a document and leaves them in place.
IndexRule ==
    [extensions |-> <<"png">>,
     namePattern |-> <<"${filename}", "-", "${index}">>,
     pathPattern |-> <<".", "assets">>,
     locationMode |-> "original"]

\* A rule written in capitals, for scans that stay where they are.
ScanRule ==
    [extensions |-> <<"PNG">>,
     namePattern |-> <<"scan", "-", "${index}">>,
     pathPattern |-> <<".", "assets">>,
     locationMode |-> "original"]

DEFAULT_SETTINGS ==
    [scopeMode |-> "vault",
     watchedPaths |-> <<PA>>,
     defaultNamePattern |-> <<"${filename}", " ", "${original}">>,
     defaultPathPattern |-> <<".", "attachments">>,
     enableAutoRename |-> TRUE,
     rules |-> <<ImageRule, PdfRule>>]

Absent(p) == [path |-> p, exists |-> FALSE]
Present(p) == [path |-> p, exists |-> TRUE]

\* The vault holds one document only.
NoSecondDoc == Absent(FilePath(Inbox, <<"NoteB">>, mdExt))

\* No call of processAllNotesInScope is in progress.
IdleBatch ==
    [pc |-> "idle", queue |-> << >>, count |-> 0, totalRenamed |-> 0,
     called |-> << >>, inScope |-> {}, reported |-> -1]

InitPlugin ==
    /\ isProcessing = {}
    /\ debouncers = << >>
    /\ orphans = {}
    /\ loaded = TRUE
    /\ pass = [s \in Slots |-> IdlePass]
    /\ nRenames = 0 /\ nStarts = 0 /\ nMisses = 0
    /\ hist = << >>
    /\ calls = << >>
    /\ epoch = 0
    /\ lateStart = FALSE
    /\ batch = IdleBatch

\* One document with one embedded picture; the scope is the watched folder.
InitConc ==
    /\ InitPlugin
    /\ settings = [DEFAULT_SETTINGS EXCEPT !.scopeMode = "include",
                                            !.rules = <<IndexRule>>]
    /\ \E d \in {Inbox} :
          files = [f \in FileIds |->
                      IF f = "d1" THEN Present(FilePath(d, <<"NoteA">>, mdExt))
                      ELSE IF f = "d2" THEN NoSecondDoc
                      ELSE IF f = "a1" THEN Present(FilePath(PA, <<"pic">>, "png"))
                      ELSE Absent(FilePath(PA, <<"gone">>, "png"))]
    /\ folders = {Root, <<"Projects">>, PA, Inbox}
    /\ plainAt = {}
    /\ crowd = {}
    /\ cache = [d \in DocIds |-> <<"a1">>]
    /\ limits = [renames |-> ConcRenames, starts |-> ConcStarts, misses |-> ConcMisses,
                 slots |-> ConcSlots, keep |-> FALSE]

SpecConc == InitConc /\ [][NextConc]_vars

\* The same, with room for four renames of the document and three deferred calls.
InitBurst ==
    /\ InitPlugin
    /\ settings = [DEFAULT_SETTINGS EXCEPT !.scopeMode = "include",
                                            !.rules = <<IndexRule>>]
    /\ files = [f \in FileIds |->
                    IF f = "d1" THEN Present(FilePath(Inbox, <<"NoteA">>, mdExt))
                    ELSE IF f = "d2" THEN NoSecondDoc
                    ELSE IF f = "a1" THEN Present(FilePath(PA, <<"pic">>, "png"))
                    ELSE Absent(FilePath(PA, <<"gone">>, "png"))]
    /\ folders = {Root, <<"Projects">>, PA, Inbox}
    /\ plainAt = {}
    /\ crowd = {}
    /\ cache = [d \in DocIds |-> <<"a1">>]
    /\ limits = [renames |-> BurstRenames, starts |-> BurstStarts, misses |-> ConcMisses,
                 slots |-> ConcSlots, keep |-> FALSE]

SpecBurst == InitBurst /\ [][NextConc]_vars

\* ------------------------------------------------------------ the batch driver
\* vault.getMarkdownFiles(): the documents, in the order the host lists them.
Enumeration == <<"d1", "d2">>

getMarkdownFiles(fs) ==
    SelectSeq(Enumeration, LAMBDA d : fs[d].exists /\ fs[d].path.ext = mdExt)

filesUnfiltered(fs) == getMarkdownFiles(fs)

\* Line 167: allFiles.filter(file => this.isScopeValid(file.path)).
filesInScope(fs) ==
    SelectSeq(getMarkdownFiles(fs), LAMBDA d : isScopeValid(fs[d].path))

\* Command "Rename attachments for all notes in scope": lines 166-176, up to
\* the first call of processNoteAttachments.
processAllNotesInScope ==
    /\ loaded /\ MicroIdle
    /\ batch.pc = "idle"
    /\ LET q == filesInScope(files)
           inScope == {d \in DocIds : files[d].exists /\ isScopeValid(files[d].path)}
       IN batch' = IF q = << >>
                   THEN [batch EXCEPT !.pc = "done", !.inScope = inScope]
                   ELSE [batch EXCEPT !.pc = "calling", !.queue = q,
                                      !.called = <<Head(q)>>, !.inScope = inScope]
    /\ UNCHANGED <<files, folders, plainAt, crowd, cache, settings, isProcessing,
                   debouncers, orphans, loaded, pass, limits, nRenames, nStarts,
                   nMisses, epoch, hist, calls, lateStart>>

\* Line 178: this.processNoteAttachments(file, null), up to its first await.
BatchCall ==
    /\ batch.pc = "calling"
    /\ processNoteAttachments(Head(batch.queue), NoName)
    /\ UNCHANGED <<files, folders, plainAt, crowd, cache, settings, debouncers,
                   orphans, loaded, limits, nRenames, calls, epoch, lateStart>>

\* Lines 178-182: the awaited pass has returned count; the next document, or
\* the closing notice.
BatchResume ==
    /\ batch.pc = "resume"
    /\ LET totalRenamed == batch.totalRenamed + batch.count
           rest == Tail(batch.queue)
       IN batch' = IF rest = << >>
                   THEN [batch EXCEPT !.pc = "done", !.queue = rest,
                                      !.totalRenamed = totalRenamed,
                                      !.reported = totalRenamed]
                   ELSE [batch EXCEPT !.pc = "calling", !.queue = rest,
                                      !.totalRenamed = totalRenamed,
                                      !.called = Append(@, Head(rest))]
    /\ UNCHANGED <<files, folders, plainAt, crowd, cache, settings, isProcessing,
                   debouncers, orphans, loaded, pass, limits, nRenames, nStarts,
                   nMisses, epoch, hist, calls, lateStart>>

BatchDocPaths ==
    {FilePath(d, <<n>>, mdExt) : d \in {PA, Inbox}, n \in {"NoteA", "NoteB"}}

NextBatch ==
    \/ processAllNotesInScope
    \/ BatchCall
    \/ BatchResume
    \/ \E f \in DocIds, newPath \in BatchDocPaths : UserRename(f, newPath)
    \/ \E key \in DOMAIN debouncers : TimerFire(key)
    \/ \E f \in DocIds : CmdActive(f)
    \/ \E s \in Slots : CacheRetry(s)
    \/ \E s \in Slots : AfterResolve(s)
    \/ \E s \in Slots : RenameDone(s)

\* Two documents, each with a picture of its own next to it; the scope is
\* the watched folder.
InitBatch ==
    /\ InitPlugin
    /\ settings = [DEFAULT_SETTINGS EXCEPT !.scopeMode = "include",
                                            !.rules = <<IndexRule>>]
    /\ \E da \in {PA, Inbox}, db \in {PA, Inbox} :
          files = [f \in FileIds |->
                      IF f = "d1" THEN Present(FilePath(da, <<"NoteA">>, mdExt))
                      ELSE IF f = "d2" THEN Present(FilePath(db, <<"NoteB">>, mdExt))
                      ELSE IF f = "a1" THEN Present(FilePath(PA, <<"pic">>, "png"))
                      ELSE Present(FilePath(PA, <<"chart">>, "png"))]
    /\ folders = {Root, <<"Projects">>, PA, Inbox}
    /\ plainAt = {}
    /\ crowd = {}
    /\ cache = [d \in DocIds |-> IF d = "d1" THEN <<"a1">> ELSE <<"a2">>]
    /\ limits = [renames |-> BatchRenames, starts |-> BatchStarts,
                 misses |-> BatchMisses, slots |-> BatchSlots, keep |-> TRUE]

SpecBatch == InitBatch /\ [][NextBatch]_vars

\* ------------------------------------------------------------ the cache wait
\* One document whose reference index may stay unavailable for as long as a
\* pass waits for it.
InitWait ==
    /\ InitPlugin
    /\ settings = [DEFAULT_SETTINGS EXCEPT !.rules = <<IndexRule>>]
    /\ files = [f \in FileIds |->
                    IF f = "d1" THEN Present(FilePath(PA, <<"NoteA">>, mdExt))
                    ELSE IF f = "d2" THEN NoSecondDoc
                    ELSE IF f = "a1" THEN Present(FilePath(PA, <<"pic">>, "png"))
                    ELSE Absent(FilePath(PA, <<"gone">>, "png"))]
    /\ folders = {Root, <<"Projects">>, PA, Inbox}
    /\ plainAt = {}
    /\ crowd = {}
    /\ cache = [d \in DocIds |-> <<"a1">>]
    /\ limits = [renames |-> WaitRenames, starts |-> WaitStarts, misses |-> WaitMisses,
                 slots |-> WaitSlots, keep |-> TRUE]

NextWait ==
    \/ \E f \in DocIds, newPath \in DocPaths : UserRename(f, newPath)
    \/ \E key \in DOMAIN debouncers : TimerFire(key)
    \/ \E f \in DocIds : CmdActive(f)
    \/ \E s \in Slots : CacheRetry(s)
    \/ \E s \in Slots : AfterResolve(s)
    \/ \E s \in Slots : RenameDone(s)

SpecWait == InitWait /\ [][NextWait]_vars

\* ------------------------------------------------------------ the scope
\* The settings tab, "Operation Mode" (lines 494-504).
SetScopeMode(m) ==
    /\ loaded /\ MicroIdle
    /\ settings.scopeMode # m
    /\ settings' = [settings EXCEPT !.scopeMode = m]
    /\ UNCHANGED <<files, folders, plainAt, crowd, cache, isProcessing, debouncers,
                   orphans, loaded, pass, limits, nRenames, nStarts, nMisses, hist,
                   calls, epoch, lateStart, batch>>

\* The settings tab, "Watched Folders" / "Ignored Folders" (lines 506-519):
\* one path per line, empty lines dropped.
SetWatchedPaths(w) ==
    /\ loaded /\ MicroIdle
    /\ settings.scopeMode # "vault"
    /\ LET lines == SelectSeq(w, LAMBDA x : x # << >>)
       IN /\ settings.watchedPaths # lines
          /\ settings' = [settings EXCEPT !.watchedPaths = lines]
    /\ UNCHANGED <<files, folders, plainAt, crowd, cache, isProcessing, debouncers,
                   orphans, loaded, pass, limits, nRenames, nStarts, nMisses, hist,
                   calls, epoch, lateStart, batch>>

ScopeModes == {"vault", "include", "exclude"}

\* Watched lists as data.json or the settings tab may hold them: a path is
\* its segments between slashes, so '' is << >>, '/' is <<"", "">> and
\* '/Projects//Active/' is <<"", "Projects", "", "Active", "">>.
WatchedLists ==
    {<< >>, << << >> >>, << <<"", "">> >>, <<PA>>, << <<"", "">>, PA >>,
     <<Inbox, PA>>, << <<"Projects">> >>, << <<"", "Projects", "", "Active", "">> >>,
     << PA \o <<"NoteA.md">> >>, << <<"Projects", "Act">> >>}

ScopeDocPaths ==
    {FilePath(PA, <<"NoteA">>, mdExt), FilePath(PA \o <<"Sub">>, <<"NoteA">>, mdExt),
     FilePath(Inbox, <<"NoteA">>, mdExt), FilePath(<<"Projects">>, <<"NoteA">>, mdExt),
     FilePath(<<"Projects", "Active2">>, <<"NoteA">>, mdExt),
     FilePath(Root, <<"NoteA">>, mdExt)}

NextScope ==
    \/ \E f \in DocIds, newPath \in ScopeDocPaths : UserRename(f, newPath)
    \/ \E m \in ScopeModes : SetScopeMode(m)
    \/ \E w \in WatchedLists : SetWatchedPaths(w)

InitScope ==
    /\ InitPlugin
    /\ \E m \in ScopeModes, w \in WatchedLists :
          settings = [DEFAULT_SETTINGS EXCEPT !.scopeMode = m, !.watchedPaths = w]
    /\ files = [f \in FileIds |->
                    IF f = "d1" THEN Present(FilePath(Inbox, <<"NoteA">>, mdExt))
                    ELSE IF f = "d2" THEN NoSecondDoc
                    ELSE IF f = "a1" THEN Present(FilePath(PA, <<"pic">>, "png"))
                    ELSE Absent(FilePath(PA, <<"gone">>, "png"))]
    /\ folders = {Root, <<"Projects">>, PA, Inbox, PA \o <<"Sub">>,
                  <<"Projects", "Active2">>}
    /\ plainAt = {}
    /\ crowd = {}
    /\ cache = [d \in DocIds |-> <<"a1">>]
    /\ limits = [renames |-> ScopeRenames, starts |-> 0, misses |-> 0, slots |-> 0,
                 keep |-> FALSE]

SpecScope == InitScope /\ [][NextScope]_vars

\* One document in the watched folder, its attachments and what is in their
\* way: the passes themselves.
Assets == PA \o <<"assets">>

RuleSets == {<< >>, <<ImageRule, PdfRule>>, <<ImageRule>>, <<IndexRule>>}

SecondAttachment ==
    {Absent(FilePath(PA, <<"gone">>, "png")),
     Present(FilePath(PA, <<"pic">>, "pdf")),
     Present(FilePath(Inbox, <<"pic">>, "png"))}

\* What is in the way: nothing, a file named "assets" where the folder should
\* be, or files "NoteA pic.png", "NoteA pic 1.png", ... in the assets folder.
Obstacles ==
    {[plainAt |-> {}, crowd |-> {}], [plainAt |-> {Assets}, crowd |-> {}]}
    \cup {[plainAt |-> {},
           crowd |-> {[dir |-> Assets, stem |-> <<"NoteA", " ", "pic">>,
                       ext |-> "png", upTo |-> u]}] :
             u \in {1, maxRetries - 2, maxRetries - 1}}

\* In the way of a picture that stays in its folder: "NoteA-01.png" and
\* "NoteA-01 1.png" next to it (and an assets folder that exists).
InPlaceObstacle ==
    [plainAt |-> {},
     crowd |-> {[dir |-> PA, stem |-> <<"NoteA", "-", "01">>, ext |-> "png", upTo |-> 1],
                [dir |-> Assets, stem |-> <<"NoteA", " ", "pic">>, ext |-> "png",
                 upTo |-> 1]}]

\* "NoteA pic 1.png" is in the assets folder already, "NoteA pic.png" is not.
SuffixTaken ==
    [plainAt |-> {},
     crowd |-> {[dir |-> Assets, stem |-> <<"NoteA", " ", "pic", " ", "1">>,
                 ext |-> "png", upTo |-> 0]}]

Scenarios ==
    {[rules |-> r, second |-> a, refs |-> c, obstacle |-> [plainAt |-> {}, crowd |-> {}]] :
        r \in RuleSets, a \in SecondAttachment,
        c \in {<<"a1">>, <<"a1", "a2">>, <<"a2", None, "a1", "a1">>}}
    \cup
    {[rules |-> <<ImageRule, PdfRule>>, second |-> a, refs |-> <<"a1", "a2">>,
      obstacle |-> o] : a \in SecondAttachment, o \in Obstacles}
    \cup
    {[rules |-> <<IndexRule>>, second |-> Absent(FilePath(PA, <<"gone">>, "png")),
      refs |-> <<"a1">>, obstacle |-> InPlaceObstacle]}
    \cup
    {[rules |-> <<ImageRule, PdfRule>>,
      second |-> Present(FilePath(Inbox, <<"pic">>, "png")),
      refs |-> <<"a1", "a2">>, obstacle |-> SuffixTaken]}
    \cup
    {[rules |-> r, second |-> Present(FilePath(PA, <<"scan">>, "PNG")),
      refs |-> <<"a1", "a2">>, obstacle |-> [plainAt |-> {}, crowd |-> {}]] :
        r \in {<<IndexRule, ImageRule>>, <<PdfRule, ScanRule, ImageRule>>}}

InitPass ==
    /\ InitPlugin
    /\ \E sc \in Scenarios :
          /\ \A i \in DOMAIN sc.refs : sc.refs[i] = "a2" => sc.second.exists
          /\ settings = [DEFAULT_SETTINGS EXCEPT !.rules = sc.rules]
          /\ files = [f \in FileIds |->
                          IF f = "d1" THEN Present(FilePath(PA, <<"NoteA">>, mdExt))
                          ELSE IF f = "d2" THEN NoSecondDoc
                          ELSE IF f = "a1" THEN Present(FilePath(PA, <<"pic">>, "png"))
                          ELSE sc.second]
          /\ plainAt = sc.obstacle.plainAt
          /\ crowd = sc.obstacle.crowd
          /\ folders = {Root, <<"Projects">>, PA, Inbox}
                           \cup {c.dir : c \in sc.obstacle.crowd}
          /\ cache = [d \in DocIds |-> sc.refs]
    /\ limits = [renames |-> PassRenames, starts |-> PassStarts, misses |-> PassMisses,
                 slots |-> PassSlots, keep |-> TRUE]

SpecPass == InitPass /\ [][NextPass]_vars

\* ------------------------------------------------------------ properties
Running == {s \in Slots : pass[s].pc # "idle"}

\* hist[i] and hist[i + 1] are two passes over the same document with the same
\* arguments, run one after the other with nothing in between, no primitive
\* failing in either.
TwiceInARow(i) ==
    LET a == hist[i]
        b == hist[i + 1]
    IN /\ a.guard /\ b.guard
       /\ a.file = b.file /\ a.old = b.old
       /\ a.targets >= 1
       /\ a.failed = {} /\ b.failed = {}
       /\ a.endedAt = a.startedAt[2] + Cardinality(a.ok)
       /\ b.startedAt = <<i, a.endedAt>>
       /\ b.endedAt = a.endedAt + Cardinality(b.ok)

\* C1: a pass run twice in a row over the same document, with the same
\* arguments and no change in between, renames nothing the second time: it
\* returns 0 and never invokes the rename primitive.
C1_Idempotent ==
    \A i \in 1..(Len(hist) - 1) :
        TwiceInARow(i) => hist[i + 1].ret = 0 /\ hist[i + 1].invoked = {}

\* C2: while the plugin is loaded, the path of a document under
\* reconciliation is in the in-flight set for the whole pass, and no two
\* passes over the same document are in progress at once.
C2_GuardExclusion ==
    loaded =>
        \A s \in Running :
            /\ files[pass[s].noteFile].path \in isProcessing
            /\ \A u \in Running : u # s => pass[u].noteFile # pass[s].noteFile

\* C3: a pass that returns leaves no path of its own in the in-flight set, so
\* the set is empty whenever no pass is in progress.
C3_GuardRelease == Running = {} => isProcessing = {}

\* The path resolveCollision returned for file f is free, or is f's own.
FreeOrOwn(fs, path, f) == getAbstractFileByPath(fs, path) \in {None, f}

DesiredPaths ==
    {files[g].path : g \in {h \in FileIds : files[h].exists}}
    \cup {FilePath(c.dir, c.stem, c.ext) : c \in crowd}

\* C4: the path resolveCollision returns is unoccupied or occupied by the
\* file being renamed itself (its own current path on exhaustion), never the
\* path of another file: for the call a pass has just made, and for every
\* desired path and file of the vault as it is.
C4_CollisionFree ==
    /\ \A s \in Slots :
          pass[s].pc = "resolved" =>
              FreeOrOwn(files, pass[s].finalPath, pass[s].targets[pass[s].k].file)
    /\ \A f \in {h \in AttIds : files[h].exists}, d \in DesiredPaths :
          FreeOrOwn(files, resolveCollision(files, d, f, d.dir, d.base), f)

\* C4's case: a pass has been given a suffixed path, its desired one being taken.
C4_Witness ==
    \E s \in Slots :
        /\ pass[s].pc = "resolved"
        /\ pass[s].finalPath # pass[s].desiredPath
        /\ pass[s].finalPath # files[pass[s].targets[pass[s].k].file].path

\* C5: a burst of accepted rename events for one document path, each arriving
\* while a timer for that path is pending, is answered by exactly one deferred
\* call of processNoteAttachments, never by two.
C5_OnePassPerBurst == \A k \in DOMAIN calls : calls[k] <= 1

Keys == DOMAIN debouncers \cup {o.key : o \in orphans}

TimersFor(key) ==
    Cardinality({o \in orphans : o.key = key})
    + (IF key \in DOMAIN debouncers /\ debouncers[key].pending THEN 1 ELSE 0)

\* C6: at most one timer is pending per document path, and the registry holds
\* an entry for a path exactly when a timer for that path is pending.
C6_RegistryInvariant ==
    \A key \in Keys :
        /\ TimersFor(key) <= 1
        /\ key \in DOMAIN debouncers <=> TimersFor(key) = 1

\* C7: once onunload has run no debounce timer is pending, the registry and
\* the in-flight set are empty, and no timer starts a pass.
C7_Shutdown ==
    ~loaded => /\ \A key \in Keys : TimersFor(key) = 0
               /\ debouncers = << >>
               /\ ~lateStart

\* The gate of the 'rename' handler, as the claim states it.
Gate(f) ==
    /\ settings.enableAutoRename
    /\ files'[f].path.ext = "md"
    /\ isScopeValid(files'[f].path)

Renamed(f) == files'[f].path # files[f].path

Arms ==
    \E key \in DOMAIN debouncers' :
        /\ debouncers'[key].pending
        /\ key \notin DOMAIN debouncers \/ debouncers[key] # debouncers'[key]

\* C8: a rename event that fails the gate (auto-rename on, a text document,
\* the new path in scope) creates no registry entry, starts no timer and
\* starts no pass, and a timer is armed only by an event that passes it: the
\* engine's own renames of attachments arm none.
C8_TriggerGating ==
    [][/\ \A f \in FileIds :
            Renamed(f) /\ ~Gate(f) =>
                debouncers' = debouncers /\ orphans' = orphans /\ nStarts' = nStarts
       /\ Arms => \E f \in FileIds : Renamed(f) /\ Gate(f)]_vars

\* C8's case: the engine has renamed the picture of a document in scope,
\* with auto-rename on, and no timer is pending for the picture.
C8_Witness ==
    /\ loaded /\ settings.enableAutoRename
    /\ files["a1"].path.base # <<"pic">>
    /\ isScopeValid(files["a1"].path)
    /\ files["a1"].path \notin Keys

\* C9: a pass that meets a failure goes through all its targets all the same,
\* and returns the number of rename-primitive invocations that succeeded.
C9_FailureContained ==
    \A i \in DOMAIN hist :
        hist[i].guard =>
            /\ hist[i].ret = Cardinality(hist[i].ok)
            /\ hist[i].began = 1..hist[i].targets

\* C9's case: a pass in which one target failed and a later one was renamed.
C9_Witness ==
    \E i \in DOMAIN hist :
        \E j \in hist[i].failed, k \in hist[i].ok : j < k /\ hist[i].ret >= 1

NoRule(f) == getRuleForExtension(files[f].path.ext) = 0

\* The desired path under the defaults: defaultNamePattern, defaultPathPattern, Pattern.
DefaultDesired(p) ==
    LET a == files[p.targets[p.k].file].path
        name == sanitizeName(applyVariables(settings.defaultNamePattern,
                    [filename |-> files[p.noteFile].path.base,
                     original |-> getCleanOriginalName(a.base, p.oldNoteName),
                     extension |-> <<a.ext>>,
                     date |-> getFormattedDate,
                     index |-> <<PadIndex(p.targets[p.k].index)>>]))
    IN FilePath(resolveTargetPath(files, settings.defaultPathPattern, p.noteFile),
                name, a.ext)

\* C10: with a non-empty rule list an attachment whose extension matches no
\* rule is never renamed or moved; with an empty one every attachment a pass
\* takes up gets the default name pattern, the default path pattern and
\* location mode Pattern.
C10_Allowlist ==
    /\ [][\A f \in AttIds :
              Len(settings.rules) > 0 /\ NoRule(f) => files'[f] = files[f]]_vars
    /\ [](\A s \in Slots :
              pass[s].pc = "resolved" /\ Len(settings.rules) = 0 =>
                  /\ pass[s].locationMode = "pattern"
                  /\ pass[s].desiredPath = DefaultDesired(pass[s]))

\* C10's case: a pass has returned that had, under a non-empty rule list, a
\* target no rule matches.
C10_Witness ==
    /\ Len(settings.rules) > 0
    /\ \E i \in DOMAIN hist :
          /\ hist[i].guard /\ hist[i].targets >= 2
          /\ \E j \in DOMAIN cache[hist[i].file] :
                cache[hist[i].file][j] # None /\ NoRule(cache[hist[i].file][j])

\* The rule matched by attachment f keeps attachments in their folder.
OriginalRule(f) ==
    LET r == getRuleForExtension(files[f].path.ext)
    IN r # 0 /\ settings.rules[r].locationMode = "original"

\* C11: an attachment whose matched rule has location mode Original is only
\* ever renamed within its parent folder, also when the new name carries a
\* collision suffix, and the pass neither creates nor looks for a folder on
\* its behalf.
C11_OriginalKeepsFolder ==
    /\ [][\A f \in AttIds :
              OriginalRule(f) /\ files'[f].path # files[f].path =>
                  /\ files'[f].path.dir = files[f].path.dir
                  /\ folders' = folders]_vars
    /\ [](\A s \in Slots :
              pass[s].pc \in {"creating", "ensured", "threw"} =>
                  ~OriginalRule(pass[s].targets[pass[s].k].file))

\* C11's case: the picture has been renamed in place with a collision suffix.
C11_Witness ==
    /\ OriginalRule("a1")
    /\ files["a1"].path = FilePath(PA, <<"NoteA", "-", "01", " ", "2">>, "png")

\* The watched folders that count: normalized, the empty and root ones dropped.
KeptFolders ==
    {normalizePath(settings.watchedPaths[i]) : i \in DOMAIN settings.watchedPaths}
        \ {Root}

\* The path is a watched folder, or lies below one.
Matched(p) ==
    \E w \in KeptFolders :
        LET q == Segments(p)
        IN Len(w) <= Len(q) /\ SubSeq(q, 1, Len(w)) = w

ScopeProbes == ScopeDocPaths \cup {FilePath(<<"Projects">>, <<"Active">>, "")}

\* C12: isScopeValid is true of every path in mode Vault, and in modes
\* Include and Exclude when no watched folder is left after dropping the
\* empty and root entries; otherwise it is true in mode Include exactly of the
\* paths that are a watched folder or lie below one, and in mode Exclude
\* exactly of the others.
C12_ScopeFilter ==
    \A p \in ScopeProbes :
        isScopeValid(p) <=>
            CASE settings.scopeMode = "vault" -> TRUE
              [] KeptFolders = {} -> TRUE
              [] settings.scopeMode = "include" -> Matched(p)
              [] OTHER -> ~Matched(p)

\* C12's case: with a root entry and a watched folder in the list, mode
\* Include, the document has been moved to a subfolder of the watched folder
\* and the event was let through.
C12_Witness ==
    /\ settings.scopeMode = "include"
    /\ settings.watchedPaths = << <<"", "">>, PA >>
    /\ files["d1"].path.dir = PA \o <<"Sub">>
    /\ files["d1"].path \in DOMAIN debouncers

ExtProbes == {"png", "PNG", "pdf", "PDF", "txt", mdExt}

\* Rule i lists the extension, letter case apart.
Lists(i, ext) ==
    \E j \in DOMAIN settings.rules[i].extensions :
        toLowerCase(settings.rules[i].extensions[j]) = toLowerCase(ext)

\* C13: getRuleForExtension returns the first rule, in list order, that lists
\* the extension compared case-insensitively, whatever later rules list, and
\* no rule when none lists it.
C13_FirstMatch ==
    \A ext \in ExtProbes :
        LET r == getRuleForExtension(ext)
        IN IF \E i \in DOMAIN settings.rules : Lists(i, ext)
           THEN /\ r \in DOMAIN settings.rules
                /\ Lists(r, ext)
                /\ \A i \in 1..(r - 1) : ~Lists(i, ext)
           ELSE r = 0

\* C13's case: 'scan.PNG' has been renamed by the first of two rules that
\* list png, the one that numbers attachments in place.
C13_Witness ==
    /\ settings.rules = <<IndexRule, ImageRule>>
    /\ files["a2"].path = FilePath(PA, <<"NoteA", "-", "02">>, "PNG")

RECURSIVE SumOfBatch(_)
SumOfBatch(i) ==
    IF i = 0 THEN 0
    ELSE (IF hist[i].byBatch THEN hist[i].ret ELSE 0) + SumOfBatch(i - 1)

BatchRunning == {s \in Slots : pass[s].pc # "idle" /\ pass[s].byBatch}

\* The documents in scope when the command was given, in enumeration order.
DueDocs == SelectSeq(Enumeration, LAMBDA d : d \in batch.inScope)

\* C14: processAllNotesInScope calls processNoteAttachments on the documents
\* that isScopeValid accepts when the command is given, in enumeration
\* order, on the next one only when the pass over the previous one has
\* returned, and reports the sum of the counts those passes returned.
C14_BatchSequential ==
    /\ Cardinality(BatchRunning) <= 1
    /\ batch.pc = "waiting" <=> BatchRunning # {}
    /\ Len(batch.called) <= Len(DueDocs)
    /\ batch.called = SubSeq(DueDocs, 1, Len(batch.called))
    /\ batch.pc = "done" =>
          /\ batch.called = DueDocs
          /\ Cardinality({i \in DOMAIN hist : hist[i].byBatch}) = Len(DueDocs)
          /\ DueDocs # << >> => batch.reported = SumOfBatch(Len(hist))

\* C14's case: a batch over two documents has ended, having renamed the
\* picture of each.
C14_Witness ==
    /\ batch.pc = "done"
    /\ batch.called = <<"d1", "d2">>
    /\ batch.reported = 2

\* Plans a and b of the returned pass h are the claim's pair: two distinct
\* attachments, a before b, with the same desired path, free when a got it,
\* and both renamed.
SameNamePair(h, a, b) ==
    /\ a.k < b.k
    /\ h.tlist[a.k].file # h.tlist[b.k].file
    /\ a.desired = b.desired
    /\ a.final = a.desired
    /\ a.k \in h.ok /\ b.k \in h.ok

Suffixed(b, n) == FilePath(b.desired.dir, b.baseName \o <<" ", ToString(n)>>, b.desired.ext)

NoTwoAtOnePath ==
    \A f \in FileIds, g \in FileIds :
        /\ f # g /\ files[f].exists /\ files[g].exists => files[f].path # files[g].path
        /\ files[f].exists => ~InCrowd(files[f].path)

\* C15 as stated: of two attachments of one pass with the same, free, desired
\* path the first gets the desired path and the second "{baseName} 1.{ext}"
\* in the same folder; no two files ever share a path.
C15_SecondGetsOne ==
    /\ NoTwoAtOnePath
    /\ \A i \in DOMAIN hist : \A a \in hist[i].plans, b \in hist[i].plans :
          SameNamePair(hist[i], a, b) => b.final = Suffixed(b, 1)

\* C15, amended: the second gets "{baseName} n.{ext}" for the smallest n >= 1
\* whose path is free, which is 1 when "{baseName} 1.{ext}" is free.
C15_SecondGetsFirstFree ==
    /\ NoTwoAtOnePath
    /\ \A i \in DOMAIN hist : \A a \in hist[i].plans, b \in hist[i].plans :
          SameNamePair(hist[i], a, b) =>
              \E n \in 1..(maxRetries - 1) :
                  /\ b.final = Suffixed(b, n)
                  /\ ~InCrowd(Suffixed(b, n))
                  /\ \A m \in 1..(n - 1) : InCrowd(Suffixed(b, m))

\* C15's case: both pictures named "pic" have been renamed by one pass, the
\* first to "NoteA pic.png" and the second to "NoteA pic 1.png".
C15_Witness ==
    /\ \E i \in DOMAIN hist : \E a \in hist[i].plans, b \in hist[i].plans :
            SameNamePair(hist[i], a, b)
    /\ files["a1"].path = FilePath(Assets, <<"NoteA", " ", "pic">>, "png")
    /\ files["a2"].path = FilePath(Assets, <<"NoteA", " ", "pic", " ", "1">>, "png")

\* This step is a call of processNoteAttachments that found the document's
\* path in the in-flight set.
GuardHitStep == Len(hist') = Len(hist) + 1 /\ ~hist'[Len(hist')].guard

\* C16: a call made while the document's path is in the in-flight set
\* returns 0, renames nothing, creates no folder and leaves the in-flight
\* set, and with it the running pass's entry, as it was.
C16_GuardHitNoOp ==
    [][GuardHitStep =>
          /\ hist'[Len(hist')].ret = 0
          /\ hist'[Len(hist')].invoked = {}
          /\ isProcessing' = isProcessing
          /\ files' = files /\ folders' = folders
          /\ pass' = pass]_vars

\* C16's case: a call has hit the guard of a pass that is still running and
\* still holds its entry.
C16_Witness ==
    \E i \in DOMAIN hist, s \in Running :
        /\ ~hist[i].guard
        /\ hist[i].file = pass[s].noteFile
        /\ pass[s].lock \in isProcessing

\* C17: a pass looks the reference index up once and at most 10 times more;
\* when every lookup finds nothing it returns 0 after the tenth re-lookup,
\* having renamed nothing and with its guard released; when a lookup finds
\* the index it goes on to discovery.
C17_BoundedCacheWait ==
    /\ \A s \in Slots : pass[s].retries <= 10
    /\ \A i \in DOMAIN hist :
          hist[i].guard =>
              /\ hist[i].retries <= 10
              /\ hist[i].noCache =>
                    /\ hist[i].retries = 10
                    /\ hist[i].ret = 0 /\ hist[i].invoked = {}
                    /\ hist[i].released
              /\ ~hist[i].noCache => Len(hist[i].tlist) >= 1

\* The candidates of the call the pass in slot s has just made: the desired
\* path, then the suffixed ones.
Candidate(s, n) ==
    IF n = 0 THEN pass[s].desiredPath
    ELSE LET a == CHOOSE x \in pass[s].plans : x.k = pass[s].k
         IN Suffixed(a, n)

\* All 500 of them are occupied, by files other than the one being renamed.
Exhausted(s) ==
    /\ pass[s].pc = "resolved"
    /\ \A n \in 0..499 :
          getAbstractFileByPath(files, Candidate(s, n))
              \notin {None, pass[s].targets[pass[s].k].file}

\* What the pass of slot s is after the step: itself, or what it returned.
After(s) == IF pass'[s].pc = "idle" THEN hist'[Len(hist')] ELSE pass'[s]

\* C18: when the desired path and the 499 suffixed candidates are all taken
\* by other files, resolveCollision returns the file's current path and the
\* pass goes on without renaming the file, creating a folder, failing or
\* counting it.
C18_ExhaustionLeavesFile ==
    /\ [](\A s \in Slots :
              Exhausted(s) =>
                  pass[s].finalPath = files[pass[s].targets[pass[s].k].file].path)
    /\ [][\A s \in Slots :
              Exhausted(s) /\ pass'[s] # pass[s] =>
                  /\ files' = files /\ folders' = folders
                  /\ pass'[s].pc \notin {"creating", "ensured", "threw", "renaming"}
                        \/ pass'[s].k > pass[s].k
                  /\ pass[s].k \notin After(s).invoked \cup After(s).failed \cup After(s).ok
                  /\ Cardinality(After(s).ok) = pass[s].renameCount
                        \/ pass'[s].pc \notin {"idle", "resolved"}]_vars

\* C18's case: a pass has returned that left a picture where it was because
\* "NoteA pic.png" and "NoteA pic 1.png" to "NoteA pic 499.png" all exist.
C18_Witness ==
    /\ \E c \in crowd : c.upTo = 499
    /\ \E i \in DOMAIN hist : \E a \in hist[i].plans :
          /\ a.final = a.from /\ a.desired # a.from
          /\ a.k \notin hist[i].invoked \cup hist[i].failed
          /\ files[hist[i].tlist[a.k].file].path = a.from

\* The first position in the target list of the file that target k is.
FirstOccurrence(tlist, k) ==
    CHOOSE j \in 1..k :
        /\ tlist[j].file = tlist[k].file
        /\ \A m \in 1..(j - 1) : tlist[m].file # tlist[k].file

\* Target j of the returned pass h had its path finalized: it was renamed, or
\* resolveCollision returned the path it already had.
Finalized(h, j) ==
    \/ j \in h.ok
    \/ \E a \in h.plans : a.k = j /\ a.final = a.from

\* C19: in every pass an attachment that is referenced several times is
\* renamed at most once, the rename that succeeds is the one of its first
\* occurrence (so the index in the name is the first occurrence's), and no
\* name is planned for an occurrence that follows a finalized one.
C19_FirstOccurrenceWins ==
    \A i \in DOMAIN hist :
        hist[i].guard =>
            /\ \A k \in hist[i].ok :
                  /\ k = FirstOccurrence(hist[i].tlist, k)
                  /\ \A j \in hist[i].ok :
                        hist[i].tlist[j].file = hist[i].tlist[k].file => j = k
            /\ \A a \in hist[i].plans :
                  \A j \in 1..(a.k - 1) :
                      hist[i].tlist[j].file = hist[i].tlist[a.k].file
                          => ~Finalized(hist[i], j)

\* ------------------------------------------------------------ what a pass touches
\* The user deletes an attachment: the file leaves the vault, its TFile keeps
\* the path it had. The plugin listens to 'rename' only (line 117).
UserDelete(f) ==
    /\ MicroIdle
    /\ nRenames < limits.renames
    /\ files[f].exists
    /\ files' = [files EXCEPT ![f].exists = FALSE]
    /\ nRenames' = nRenames + 1
    /\ UNCHANGED <<folders, plainAt, crowd, cache, settings, isProcessing, debouncers,
                   orphans, loaded, pass, limits, nStarts, nMisses, hist, calls,
                   epoch, lateStart, batch>>

\* What NoteA.md refers to: itself, the other document, pictures, a dead link.
TouchRefs ==
    {<<"a1">>, <<"d2", "a1">>, <<"d1", "a1", "a2">>, <<"a2", "d2", None, "a1">>}

NextTouch ==
    \/ \E f \in AttIds : UserDelete(f)
    \/ \E f \in DocIds : CmdActive(f)
    \/ \E s \in Slots : CacheRetry(s)
    \/ \E s \in Slots : AfterResolve(s)
    \/ \E s \in Slots : CreateFolderDone(s)
    \/ \E s \in Slots : Ensured(s)
    \/ \E s \in Slots : Threw(s)
    \/ \E s \in Slots : RenameDone(s)

\* Two documents and two pictures in the watched folder.
InitTouch ==
    /\ InitPlugin
    /\ \E r \in {<< >>, <<ImageRule>>, <<IndexRule>>} :
          settings = [DEFAULT_SETTINGS EXCEPT !.rules = r]
    /\ files = [f \in FileIds |->
                    IF f = "d1" THEN Present(FilePath(PA, <<"NoteA">>, mdExt))
                    ELSE IF f = "d2" THEN Present(FilePath(PA, <<"NoteB">>, mdExt))
                    ELSE IF f = "a1" THEN Present(FilePath(PA, <<"pic">>, "png"))
                    ELSE Present(FilePath(PA, <<"chart">>, "png"))]
    /\ plainAt = {}
    /\ crowd = {}
    /\ folders = {Root, <<"Projects">>, PA, Inbox}
    /\ \E c \in TouchRefs : cache = [d \in DocIds |-> IF d = "d1" THEN c ELSE <<"d1">>]
    /\ limits = [renames |-> TouchDeletes, starts |-> TouchStarts,
                 misses |-> TouchMisses, slots |-> TouchSlots, keep |-> TRUE]

SpecTouch == InitTouch /\ [][NextTouch]_vars

\* The file the pass of slot s is at.
ItemOf(p) == p.targets[p.k].file

RefersTo(d, f) == \E i \in DOMAIN cache[d] : cache[d][i] = f

ChainNames ==
    {<<"NoteA">>, <<"NoteB">>, <<"NoteA", " ", "v2">>, <<"My", " ", "Note">>,
     <<"My", " ", " ", "Note">>}

ChainPaths == {FilePath(PA, n, mdExt) : n \in ChainNames}

\* Nothing of the plugin is pending: no timer, no pass.
Quiet ==
    /\ \A s \in Slots : pass[s].pc = "idle"
    /\ \A key \in DOMAIN debouncers : ~debouncers[key].pending
    /\ orphans = {}

\* The user renames the document once the pass of the previous rename is over.
UserRenameQuiet(f, newPath) == Quiet /\ UserRename(f, newPath)

NextChain ==
    \/ \E newPath \in ChainPaths : UserRenameQuiet("d1", newPath)
    \/ \E key \in DOMAIN debouncers : TimerFire(key)
    \/ \E s \in Slots : CacheRetry(s)
    \/ \E s \in Slots : AfterResolve(s)
    \/ \E s \in Slots : CreateFolderDone(s)
    \/ \E s \in Slots : Ensured(s)
    \/ \E s \in Slots : Threw(s)
    \/ \E s \in Slots : RenameDone(s)

\* One document N1.md with one picture, named "pic" or already "N1 pic".
InitChain ==
    /\ InitPlugin
    /\ \E r \in {<< >>, <<ImageRule>>} : settings = [DEFAULT_SETTINGS EXCEPT !.rules = r]
    /\ \E n1 \in ChainNames, templated \in BOOLEAN :
          files = [f \in FileIds |->
                      IF f = "d1" THEN Present(FilePath(PA, n1, mdExt))
                      ELSE IF f = "d2" THEN NoSecondDoc
                      ELSE IF f = "a1"
                      THEN Present(FilePath(PA, IF templated
                                                THEN sanitizeName(n1 \o <<" ", "pic">>)
                                                ELSE <<"pic">>, "png"))
                      ELSE Absent(FilePath(PA, <<"gone">>, "png"))]
    /\ plainAt = {}
    /\ crowd = {}
    /\ folders = {Root, <<"Projects">>, PA, Inbox}
    /\ cache = [d \in DocIds |-> <<"a1">>]
    /\ limits = [renames |-> ChainRenames, starts |-> ChainStarts,
                 misses |-> ChainMisses, slots |-> ChainSlots, keep |-> TRUE]

SpecChain == InitChain /\ [][NextChain]_vars

\* How many times the name p occurs in the name s.
RECURSIVE Occurrences(_, _)
Occurrences(s, p) ==
    IF s = << >> THEN 0
    ELSE (IF IsPrefix(p, s) THEN 1 ELSE 0) + Occurrences(Tail(s), p)

\* Every rename so far has had its pass, and every pass renamed the picture.
Reconciled ==
    /\ Quiet
    /\ nRenames >= 1 /\ Len(hist) = nRenames
    /\ \A i \in DOMAIN hist :
          /\ hist[i].guard /\ hist[i].file = "d1"
          /\ hist[i].failed = {} /\ hist[i].ret = 1

\* C21: after the pass of each of the successive renames N1 -> N2 -> N3
\* (old name = the preceding name, pattern "${filename} ${original}") the
\* picture's basename holds the document's current name exactly once and
\* none of its earlier names (other than one the current name contains).
C21_NoStaleNames ==
    Reconciled =>
        LET base == files["a1"].path.base
            current == files["d1"].path.base
        IN /\ Occurrences(base, current) = 1
           /\ \A i \in DOMAIN hist :
                 Includes(base, hist[i].old) => Includes(current, hist[i].old)

\* ------------------------------------------------------------ two documents
\* The shared folder of the default PDF rule.
Shared == <<"Documents", "Attachments">>

NextRace ==
    \/ \E f \in DocIds : CmdActive(f)
    \/ \E s \in Slots : CacheRetry(s)
    \/ \E s \in Slots : AfterResolve(s)
    \/ \E s \in Slots : CreateFolderDone(s)
    \/ \E s \in Slots : Ensured(s)
    \/ \E s \in Slots : Threw(s)
    \/ \E s \in Slots : RenameDone(s)

\* Default settings; NoteA.md in two folders (or NoteA.md and NoteB.md), each
\* with a pic.pdf next to it; Documents/Attachments exists or not.
InitRace ==
    /\ InitPlugin
    /\ settings = DEFAULT_SETTINGS
    /\ \E n2 \in {<<"NoteA">>, <<"NoteB">>} :
          files = [f \in FileIds |->
                      IF f = "d1" THEN Present(FilePath(PA, <<"NoteA">>, mdExt))
                      ELSE IF f = "d2" THEN Present(FilePath(Inbox, n2, mdExt))
                      ELSE IF f = "a1" THEN Present(FilePath(PA, <<"pic">>, "pdf"))
                      ELSE Present(FilePath(Inbox, <<"pic">>, "pdf"))]
    /\ plainAt = {}
    /\ crowd = {}
    /\ \E made \in SUBSET {Shared} :
          folders = {Root, <<"Projects">>, PA, Inbox}
                        \cup UNION {Prefixes(d) : d \in made}
    /\ cache = [d \in DocIds |-> IF d = "d1" THEN <<"a1">> ELSE <<"a2">>]
    /\ limits = [renames |-> 0, starts |-> RaceStarts, misses |-> RaceMisses,
                 slots |-> RaceSlots, keep |-> TRUE]

SpecRace == InitRace /\ [][NextRace]_vars

\* C22: when the passes of two documents interleave, fileManager.renameFile
\* is never invoked with a destination that another file occupies at that
\* moment.
C22_NoRenameRace ==
    [][\A s \in Slots :
          pass'[s].pc = "renaming" /\ pass[s].pc # "renaming" =>
              FreeOrOwn(files', pass'[s].finalPath, ItemOf(pass'[s]))]_vars
====
